---- MODULE Spec2Model ----
(***************************************************************************)
(* HttpHeaders (packages/common/http/src/headers.ts): the lazily           *)
(* initialised header multi-map and its copy-on-fork mutators.             *)
(*                                                                         *)
(* JavaScript strings are sequences of one-character strings, so that      *)
(* toLowerCase, indexOf, slice, split and trim are computed.  A JavaScript *)
(* Map is a sequence of <<key, value>> pairs in insertion order.  Arrays   *)
(* are cells of a heap (arrays), because headers.ts stores and copies      *)
(* array references: a Map value is the index of a cell.                   *)
(***************************************************************************)
EXTENDS Integers, Sequences, FiniteSets, TLC

VARIABLES objs,        \* the HttpHeaders instances, in creation order
          arrays,      \* the heap of string[] values referenced by the Maps
          initCount,   \* per instance: how often the body of init() has run
          calls,       \* per instance: the call that created it
          born,        \* per instance: what its reads return when it is created
          firstRead,   \* per instance: what its first read returned
          chain,       \* HttpInterceptingHandler.chain
          injector,    \* what the injector provides as HTTP_INTERCEPTORS, and
                       \* what it returned to each query
          handled,     \* per handle call: the handlers the request reached
          made         \* the last interceptingHandler call and its result

headersVars == <<objs, arrays, initCount, calls, born, firstRead>>

handlerVars == <<chain, injector, handled, made>>

vars == <<objs, arrays, initCount, calls, born, firstRead,
          chain, injector, handled, made>>

\* Number of HttpHeaders instances a behaviour creates.
MaxObjs == 3

----------------------------------------------------------------------------
\* JavaScript values

Undefined == [t |-> "undefined"]
Null == [t |-> "null"]
Str(s) == [t |-> "string", s |-> s]
Arr(l) == [t |-> "array", l |-> l]

\* the strings used as header values
x == <<"x">>
xy == <<"x", "y">>
empty == <<>>

\* the header names used by the calls
Names == {<<"A">>, <<"a">>, <<"B">>}

LowerChar(c) ==
  CASE c = "A" -> "a"
    [] c = "B" -> "b"
    [] OTHER -> c

toLowerCase(s) == [i \in 1..Len(s) |-> LowerChar(s[i])]

\* String.prototype.indexOf(t): 0-based position of the first occurrence of
\* the substring t, or -1.
strIndexOf(s, t) ==
  LET occ == {i \in 0..(Len(s) - Len(t)) : SubSeq(s, i + 1, i + Len(t)) = t}
  IN IF occ = {} THEN -1 ELSE CHOOSE i \in occ : \A j \in occ : i <= j

\* Array.prototype.indexOf(v): 0-based position of the first element equal
\* to v, or -1.
arrIndexOf(a, v) ==
  LET occ == {i \in 0..(Len(a) - 1) : a[i + 1] = v}
  IN IF occ = {} THEN -1 ELSE CHOOSE i \in occ : \A j \in occ : i <= j

\* String.prototype.slice(from, to) for 0 <= from <= to <= length.
slice(s, from, to) == SubSeq(s, from + 1, to)

IsSpace(c) == c \in {" ", "\t", "\r"}

RECURSIVE trimStart(_)
trimStart(s) ==
  IF Len(s) > 0 /\ IsSpace(s[1]) THEN trimStart(Tail(s)) ELSE s

RECURSIVE trimEnd(_)
trimEnd(s) ==
  IF Len(s) > 0 /\ IsSpace(s[Len(s)]) THEN trimEnd(SubSeq(s, 1, Len(s) - 1)) ELSE s

\* String.prototype.trim()
trim(s) == trimEnd(trimStart(s))

\* String.prototype.split('\n')
RECURSIVE split(_)
split(s) ==
  LET i == strIndexOf(s, <<"\n">>)
  IN IF i = -1 THEN <<s>>
     ELSE <<slice(s, 0, i)>> \o split(slice(s, i + 1, Len(s)))

----------------------------------------------------------------------------
\* Map<K, V> as a sequence of <<key, value>> pairs in insertion order

NewMap == <<>>

MapHas(m, k) == \E i \in 1..Len(m) : m[i][1] = k

MapGet(m, k) == m[CHOOSE i \in 1..Len(m) : m[i][1] = k][2]

\* set keeps the position of an existing key and puts a new key last
MapSet(m, k, v) ==
  IF MapHas(m, k)
  THEN [i \in 1..Len(m) |-> IF m[i][1] = k THEN <<k, v>> ELSE m[i]]
  ELSE Append(m, <<k, v>>)

MapDelete(m, k) == SelectSeq(m, LAMBDA e : e[1] # k)

MapKeys(m) == [i \in 1..Len(m) |-> m[i][1]]

MapValues(m) == [i \in 1..Len(m) |-> m[i][2]]

KeySet(m) == {m[i][1] : i \in 1..Len(m)}

----------------------------------------------------------------------------
\* The program state the methods work on: st = [objs, arrays, initCount].
\* An instance is [headers, normalizedNames, lazyInit, lazyUpdate]; headers
\* is Undefined until assigned, else [t |-> "Map", m |-> pairs].

MapVal(m) == [t |-> "Map", m |-> m]

SetField(st, this, f, v) ==
  [st EXCEPT !.objs = [st.objs EXCEPT ![this] = [st.objs[this] EXCEPT ![f] = v]]]

\* a new string[] with the given content; its reference is Len(arrays)
NewArray(st, content) == [st EXCEPT !.arrays = Append(st.arrays, content)]

\* the constructor, headers.ts:54-91
Constructor(headers) ==
  IF headers.t = "undefined" \/ (headers.t = "string" /\ Len(headers.s) = 0)
  THEN [headers |-> MapVal(NewMap), normalizedNames |-> NewMap,
        lazyInit |-> Undefined, lazyUpdate |-> Null]
  ELSE [headers |-> Undefined, normalizedNames |-> NewMap,
        lazyInit |-> [t |-> "Function", headers |-> headers], lazyUpdate |-> Null]

\* maybeSetNormalizedName that takes every spelling it is given
maybeSetNormalizedNameOverwrites(st, this, name, lcName) ==
  SetField(st, this, "normalizedNames",
           MapSet(st.objs[this].normalizedNames, lcName, name))

maybeSetNormalizedName(st, this, name, lcName) ==
  IF ~MapHas(st.objs[this].normalizedNames, lcName)
  THEN SetField(st, this, "normalizedNames",
                MapSet(st.objs[this].normalizedNames, lcName, name))
  ELSE st

\* parseLine without the trim of the value
parseLineNoTrim(st, this, line) ==
  LET index == strIndexOf(line, <<":">>)
  IN IF index > 0
     THEN LET name == slice(line, 0, index)
              key == toLowerCase(name)
              value == slice(line, index + 1, Len(line))
              s1 == maybeSetNormalizedName(st, this, name, key)
              h == s1.objs[this].headers.m
          IN IF MapHas(h, key)
             THEN [s1 EXCEPT !.arrays[MapGet(h, key)] = Append(@, value)]
             ELSE LET s2 == NewArray(s1, <<value>>)
                  IN SetField(s2, this, "headers",
                              MapVal(MapSet(h, key, Len(s2.arrays))))
     ELSE st

\* one line of the raw header block, headers.ts:60-73
parseLine(st, this, line) ==
  LET index == strIndexOf(line, <<":">>)
  IN IF index > 0
     THEN LET name == slice(line, 0, index)
              key == toLowerCase(name)
              value == trim(slice(line, index + 1, Len(line)))
              s1 == maybeSetNormalizedName(st, this, name, key)
              h == s1.objs[this].headers.m
          IN IF MapHas(h, key)
             THEN [s1 EXCEPT !.arrays[MapGet(h, key)] = Append(@, value)]
             ELSE LET s2 == NewArray(s1, <<value>>)
                  IN SetField(s2, this, "headers",
                              MapVal(MapSet(h, key, Len(s2.arrays))))
     ELSE st

RECURSIVE parseLines(_, _, _)
parseLines(st, this, lines) ==
  IF lines = <<>> THEN st
  ELSE parseLines(parseLine(st, this, Head(lines)), this, Tail(lines))

\* the initializer of a raw header block, headers.ts:58-74
initFromString(st, this, headers) ==
  parseLines(SetField(st, this, "headers", MapVal(NewMap)), this, split(headers))

\* recordEntry without the values.length > 0 test
recordEntryKeepsEmpty(st, this, entry) ==
  LET name == entry[1]
      key == toLowerCase(name)
      values == IF entry[2].t = "string" THEN <<entry[2].s>> ELSE entry[2].l
      s1 == NewArray(st, values)
      s2 == SetField(s1, this, "headers",
                     MapVal(MapSet(s1.objs[this].headers.m, key, Len(s1.arrays))))
  IN maybeSetNormalizedName(s2, this, name, key)

\* recordEntry recording the name of an entry whose list is empty
recordEntryNamesEmpty(st, this, entry) ==
  LET name == entry[1]
      key == toLowerCase(name)
      values == IF entry[2].t = "string" THEN <<entry[2].s>> ELSE entry[2].l
      s0 == maybeSetNormalizedName(st, this, name, key)
  IN IF Len(values) > 0
     THEN LET s1 == NewArray(s0, values)
          IN SetField(s1, this, "headers",
                      MapVal(MapSet(s1.objs[this].headers.m, key, Len(s1.arrays))))
     ELSE s0

\* one entry of the record, headers.ts:78-88; a list value is stored by
\* reference (the cell stands for the caller's array), a string value is
\* wrapped in a new array
recordEntry(st, this, entry) ==
  LET name == entry[1]
      key == toLowerCase(name)
      values == IF entry[2].t = "string" THEN <<entry[2].s>> ELSE entry[2].l
  IN IF Len(values) > 0
     THEN LET s1 == NewArray(st, values)
              s2 == SetField(s1, this, "headers",
                             MapVal(MapSet(s1.objs[this].headers.m, key, Len(s1.arrays))))
          IN maybeSetNormalizedName(s2, this, name, key)
     ELSE st

RECURSIVE recordEntries(_, _, _)
recordEntries(st, this, entries) ==
  IF entries = <<>> THEN st
  ELSE recordEntries(recordEntry(st, this, Head(entries)), this, Tail(entries))

\* the initializer of a record, headers.ts:76-89
initFromObject(st, this, entries) ==
  recordEntries(SetField(st, this, "headers", MapVal(NewMap)), this, entries)

\* applySetOrAppend without the value.length === 0 return
applySetOrAppendNoGuard(st, this, update) ==
  LET key == toLowerCase(update.name)
      value == IF update.value.t = "string" THEN <<update.value.s>> ELSE update.value.l
      s1 == maybeSetNormalizedName(st, this, update.name, key)
      h == s1.objs[this].headers.m
  IN IF update.op = "a" /\ MapHas(h, key)
     THEN [s1 EXCEPT !.arrays[MapGet(h, key)] = @ \o value]
     ELSE LET s2 == NewArray(s1, value)
          IN SetField(s2, this, "headers",
                      MapVal(MapSet(h, key, Len(s2.arrays))))

\* applySetOrAppend with 's' taking the held array as base, as 'a' does
applySetOrAppendKeepsBase(st, this, update) ==
  LET key == toLowerCase(update.name)
      value == IF update.value.t = "string" THEN <<update.value.s>> ELSE update.value.l
  IN IF Len(value) = 0 THEN st
     ELSE LET s1 == maybeSetNormalizedName(st, this, update.name, key)
              h == s1.objs[this].headers.m
          IN IF MapHas(h, key)
             THEN [s1 EXCEPT !.arrays[MapGet(h, key)] = @ \o value]
             ELSE LET s2 == NewArray(s1, value)
                  IN SetField(s2, this, "headers",
                              MapVal(MapSet(h, key, Len(s2.arrays))))

\* case 'a' / case 's' of applyUpdate, headers.ts:190-203
applySetOrAppend(st, this, update) ==
  LET key == toLowerCase(update.name)
      value == IF update.value.t = "string" THEN <<update.value.s>> ELSE update.value.l
  IN IF Len(value) = 0 THEN st
     ELSE LET s1 == maybeSetNormalizedName(st, this, update.name, key)
              h == s1.objs[this].headers.m
          IN IF update.op = "a" /\ MapHas(h, key)
             THEN \* base is the array held by the Map: push mutates it in place
                  [s1 EXCEPT !.arrays[MapGet(h, key)] = @ \o value]
             ELSE LET s2 == NewArray(s1, value)
                  IN SetField(s2, this, "headers",
                              MapVal(MapSet(h, key, Len(s2.arrays))))

\* deleteKey without normalizedNames.delete(key)
deleteKeyKeepsName(st, this, key) ==
  SetField(st, this, "headers", MapVal(MapDelete(st.objs[this].headers.m, key)))

\* removal of a key from both Maps, headers.ts:207-208 and 216-217
deleteKey(st, this, key) ==
  LET s1 == SetField(st, this, "headers",
                     MapVal(MapDelete(st.objs[this].headers.m, key)))
  IN SetField(s1, this, "normalizedNames",
              MapDelete(s1.objs[this].normalizedNames, key))

\* toDelete.indexOf(value) === -1, where toDelete is whatever the caller
\* passed: a string (substring search) or an array (element search)
keeps(toDelete, value) ==
  IF toDelete.t = "string" THEN strIndexOf(toDelete.s, value) = -1
  ELSE arrIndexOf(toDelete.l, value) = -1

\* !toDelete: undefined and the empty string are falsy, any array is truthy
\* the test !toDelete taken as toDelete === undefined
falsyUndefinedOnly(v) == v.t = "undefined"

falsy(v) == v.t = "undefined" \/ (v.t = "string" /\ Len(v.s) = 0)

\* applyDelete looking the name up as the caller spelled it
applyDeleteExactName(st, this, update) ==
  LET key == update.name
      toDelete == update.value
      h == st.objs[this].headers.m
  IN IF falsy(toDelete) THEN deleteKey(st, this, key)
     ELSE IF ~MapHas(h, key) THEN st
     ELSE LET existing == SelectSeq(st.arrays[MapGet(h, key)],
                                    LAMBDA value : keeps(toDelete, value))
          IN IF Len(existing) = 0 THEN deleteKey(st, this, key)
             ELSE LET s1 == NewArray(st, existing)
                  IN SetField(s1, this, "headers",
                              MapVal(MapSet(h, key, Len(s1.arrays))))

\* case 'd' of applyUpdate, headers.ts:204-222
applyDelete(st, this, update) ==
  LET key == toLowerCase(update.name)
      toDelete == update.value
      h == st.objs[this].headers.m
  IN IF falsy(toDelete) THEN deleteKey(st, this, key)
     ELSE IF ~MapHas(h, key) THEN st
     ELSE LET existing == SelectSeq(st.arrays[MapGet(h, key)],
                                    LAMBDA value : keeps(toDelete, value))
          IN IF Len(existing) = 0 THEN deleteKey(st, this, key)
             ELSE LET s1 == NewArray(st, existing)
                  IN SetField(s1, this, "headers",
                              MapVal(MapSet(h, key, Len(s1.arrays))))

applyUpdate(st, this, update) ==
  IF update.op \in {"a", "s"} THEN applySetOrAppend(st, this, update)
  ELSE applyDelete(st, this, update)

RECURSIVE applyUpdates(_, _, _)
applyUpdates(st, this, updates) ==
  IF updates = <<>> THEN st
  ELSE applyUpdates(applyUpdate(st, this, Head(updates)), this, Tail(updates))

\* one key of copyFrom's loop, headers.ts:174-175: the array reference is
\* copied, not the array
copyKey(st, this, other, key) ==
  LET s1 == SetField(st, this, "headers",
                     MapVal(MapSet(st.objs[this].headers.m, key,
                                   MapGet(st.objs[other].headers.m, key))))
  IN SetField(s1, this, "normalizedNames",
              MapSet(s1.objs[this].normalizedNames, key,
                     MapGet(s1.objs[other].normalizedNames, key)))

RECURSIVE copyKeys(_, _, _, _)
copyKeys(st, this, other, keys) ==
  IF keys = <<>> THEN st
  ELSE copyKeys(copyKey(st, this, other, Head(keys)), this, other, Tail(keys))

\* init without this.lazyInit = null
clearLazyInitSkipped(st, this) == st

\* this.lazyInit = null, headers.ts:163
clearLazyInit(st, this) == SetField(st, this, "lazyInit", Null)

\* the replay of the queue, headers.ts:164-167
replay(st, this) ==
  LET lazyUpdate == st.objs[this].lazyUpdate
  IN IF lazyUpdate.t = "array"
     THEN SetField(applyUpdates(st, this, lazyUpdate.l), this, "lazyUpdate", Null)
     ELSE st

RECURSIVE init(_, _)

copyFrom(st, this, other) ==
  LET s1 == init(st, other)
  IN copyKeys(s1, this, other, MapKeys(s1.objs[other].headers.m))

init(st, this) ==
  LET lazyInit == st.objs[this].lazyInit
  IN IF lazyInit.t \in {"HttpHeaders", "Function"}
     THEN LET s0 == [st EXCEPT !.initCount[this] = @ + 1]
              s1 == IF lazyInit.t = "HttpHeaders" THEN copyFrom(s0, this, lazyInit.ref)
                    ELSE IF lazyInit.headers.t = "string"
                         THEN initFromString(s0, this, lazyInit.headers.s)
                         ELSE initFromObject(s0, this, lazyInit.headers.entries)
          IN replay(clearLazyInit(s1, this), this)
     ELSE st

\* clone, headers.ts:179-185: the new instance is the last of objs
clone(st, this, update) ==
  LET lazyInit == st.objs[this].lazyInit
      lazyUpdate == st.objs[this].lazyUpdate
      c == [Constructor(Undefined) EXCEPT
              !.lazyInit = IF lazyInit.t = "HttpHeaders" THEN lazyInit
                           ELSE [t |-> "HttpHeaders", ref |-> this],
              !.lazyUpdate = Arr((IF lazyUpdate.t = "array" THEN lazyUpdate.l ELSE <<>>)
                                 \o <<update>>)]
  IN [st EXCEPT !.objs = Append(st.objs, c),
                !.initCount = Append(st.initCount, 0)]

----------------------------------------------------------------------------
\* The read operations, as functions of the state init() leaves

has(st, this, name) == MapHas(st.objs[this].headers.m, toLowerCase(name))

\* get returning the last value of the list
getLast(st, this, name) ==
  LET h == st.objs[this].headers.m
      key == toLowerCase(name)
  IN IF MapHas(h, key) /\ Len(st.arrays[MapGet(h, key)]) > 0
     THEN Str(st.arrays[MapGet(h, key)][Len(st.arrays[MapGet(h, key)])])
     ELSE Null

get(st, this, name) ==
  LET h == st.objs[this].headers.m
      key == toLowerCase(name)
  IN IF MapHas(h, key) /\ Len(st.arrays[MapGet(h, key)]) > 0
     THEN Str(st.arrays[MapGet(h, key)][1])
     ELSE Null

keys(st, this) == MapValues(st.objs[this].normalizedNames)

getAll(st, this, name) ==
  LET h == st.objs[this].headers.m
      key == toLowerCase(name)
  IN IF MapHas(h, key) THEN Arr(st.arrays[MapGet(h, key)]) ELSE Null

\* the calls fn receives, in order; headers.get(key) of a missing key is
\* undefined
forEach(st, this) ==
  LET n == st.objs[this].normalizedNames
      h == st.objs[this].headers.m
  IN [i \in 1..Len(n) |->
        <<n[i][2], IF MapHas(h, n[i][1]) THEN Arr(st.arrays[MapGet(h, n[i][1])])
                   ELSE Undefined>>]

\* what every read operation of an instance returns after init()
Results(st, this) ==
  LET s1 == init(st, this)
  IN [has |-> [name \in Names |-> has(s1, this, name)],
      get |-> [name \in Names |-> get(s1, this, name)],
      getAll |-> [name \in Names |-> getAll(s1, this, name)],
      keys |-> keys(s1, this),
      forEach |-> forEach(s1, this)]

----------------------------------------------------------------------------
\* Inputs

\* the arguments of new HttpHeaders(...): nothing, raw header blocks, records
RawBlock == <<"A", ":", " ", "x", "\n", "a", ":", "x", "y", " ", "\n", ":", "x", "\n", "B">>

ConstructorInputs ==
  { Undefined,
    Str(RawBlock),
    [t |-> "object", entries |-> << <<<<"A">>, Arr(<<x, xy>>)>> >>],
    [t |-> "object", entries |-> << <<<<"a">>, Str(x)>>, <<<<"B">>, Arr(<<>>)>> >>],
    [t |-> "object", entries |-> << <<<<"B">>, Str(xy)>>, <<<<"A">>, Str(x)>>, <<<<"a">>, Arr(<<xy>>)>> >>] }

\* the (name, value) arguments of the mutators
AppendArgs == { <<<<"A">>, Str(x)>>, <<<<"a">>, Arr(<<xy, x>>)>>,
                <<<<"B">>, Str(xy)>>, <<<<"A">>, Arr(<<>>)>> }

SetArgs == { <<<<"A">>, Str(xy)>>, <<<<"a">>, Arr(<<x, xy>>)>>,
             <<<<"B">>, Str(empty)>>, <<<<"a">>, Arr(<<>>)>> }

DeleteArgs == { <<<<"A">>, Undefined>>, <<<<"a">>, Str(xy)>>, <<<<"A">>, Str(x)>>,
                <<<<"B">>, Str(empty)>>, <<<<"a">>, Arr(<<x>>)>> }

----------------------------------------------------------------------------
\* HttpInterceptingHandler and interceptingHandler
\* (packages/common/http/src/module.ts)

\* Length of an HTTP_INTERCEPTORS list.
MaxInterceptors == 3

\* Number of handle calls on the HttpInterceptingHandler.
MaxHandles == 3

Interceptors == {"i1", "i2"}

InterceptorLists == UNION {[1..n -> Interceptors] : n \in 0..MaxInterceptors}

backend == [t |-> "HttpBackend", id |-> "b"]

\* new HttpInterceptorHandler(next, interceptor)
HttpInterceptorHandler(next, interceptor) ==
  [t |-> "HttpInterceptorHandler", next |-> next, interceptor |-> interceptor]

\* the fold from the left end of the list
RECURSIVE reduce(_, _)
reduce(interceptors, initial) ==
  IF interceptors = <<>> THEN initial
  ELSE reduce(Tail(interceptors),
              HttpInterceptorHandler(initial, Head(interceptors)))

\* interceptors.reduceRight((next, interceptor) =>
\*     new HttpInterceptorHandler(next, interceptor), initial)
RECURSIVE reduceRight(_, _)
reduceRight(interceptors, initial) ==
  IF interceptors = <<>> THEN initial
  ELSE reduceRight(SubSeq(interceptors, 1, Len(interceptors) - 1),
                   HttpInterceptorHandler(initial, interceptors[Len(interceptors)]))

\* interceptingHandler(backend, interceptors = []), module.ts:63-70
interceptingHandler(b, interceptors) ==
  LET list == IF interceptors.t = "undefined" THEN Arr(<<>>) ELSE interceptors
  IN IF list.t = "null" THEN b ELSE reduceRight(list.l, b)

\* injector.get(HTTP_INTERCEPTORS, notFoundValue)
injectorGet(inj, notFoundValue) ==
  IF inj.provided.t = "array" THEN inj.provided.l ELSE notFoundValue

\* handle that queries the injector on every call
handleReloads(h) ==
  LET interceptors == injectorGet(h.injector, <<>>)
  IN [chain |-> reduceRight(interceptors, backend),
      injector |-> [h.injector EXCEPT !.returned = Append(@, interceptors)]]

\* HttpInterceptingHandler.handle up to the delegation, module.ts:42-47;
\* h is the handler's chain and its injector
handle(h) ==
  IF h.chain.t = "null"
  THEN LET interceptors == injectorGet(h.injector, <<>>)
       IN [chain |-> reduceRight(interceptors, backend),
           injector |-> [h.injector EXCEPT !.returned = Append(@, interceptors)]]
  ELSE h

\* handler.handle(req): an HttpInterceptorHandler hands the request and its
\* next handler to its interceptor, and the interceptor forwards the request
\* to that handler; the result is the interceptors and the backend the request
\* reaches, in order
RECURSIVE Reaches(_)
Reaches(handler) ==
  IF handler.t = "HttpInterceptorHandler"
  THEN <<handler.interceptor>> \o Reaches(handler.next)
  ELSE <<handler.id>>

\* what the application provides as HTTP_INTERCEPTORS: nothing, or a list
Provided == {Undefined} \cup {Arr(l) : l \in InterceptorLists}

\* the second argument of interceptingHandler
FactoryArgs == {Undefined, Null} \cup {Arr(l) : l \in InterceptorLists}

\* the handler after construction (module.ts:37-40) and no factory call
NoHandler ==
  /\ chain = Null
  /\ injector \in [provided : Provided, returned : {<<>>}]
  /\ handled = <<>>
  /\ made = Null

----------------------------------------------------------------------------
\* The state machine

State == [objs |-> objs, arrays |-> arrays, initCount |-> initCount]

NotRead == [t |-> "none"]

Init ==
  /\ \E headers \in ConstructorInputs :
       /\ objs = <<Constructor(headers)>>
       /\ calls = <<[op |-> "new", headers |-> headers]>>
  /\ arrays = <<>>
  /\ initCount = <<0>>
  /\ born = <<Results([objs |-> objs, arrays |-> <<>>, initCount |-> <<0>>], 1)>>
  /\ firstRead = <<NotRead>>
  /\ chain = Null
  /\ injector = [provided |-> Undefined, returned |-> <<>>]
  /\ handled = <<>>
  /\ made = Null

\* append, set and delete (headers.ts:138-148) are clone with the update;
\* calls records the receiver, the update and what the receiver's reads
\* return at the time of the call
Fork(this, op, name, value) ==
  /\ Len(objs) < MaxObjs
  /\ LET update == [name |-> name, value |-> value, op |-> op]
         s1 == clone(State, this, update)
     IN /\ objs' = s1.objs
        /\ arrays' = s1.arrays
        /\ initCount' = s1.initCount
        /\ calls' = Append(calls, [op |-> op, this |-> this, update |-> update,
                                   lazyInit |-> s1.objs[Len(s1.objs)].lazyInit.ref,
                                   before |-> Results(State, this)])
        /\ born' = Append(born, Results(s1, Len(s1.objs)))
        /\ firstRead' = Append(firstRead, NotRead)
        /\ UNCHANGED handlerVars

append ==
  \E this \in 1..Len(objs) : \E a \in AppendArgs : Fork(this, "a", a[1], a[2])

set ==
  \E this \in 1..Len(objs) : \E a \in SetArgs : Fork(this, "s", a[1], a[2])

delete ==
  \E this \in 1..Len(objs) : \E a \in DeleteArgs : Fork(this, "d", a[1], a[2])

\* has, get, getAll, keys and forEach (headers.ts:98-136, 229-233): each
\* calls init() and returns a function of the state init() leaves;
\* firstRead keeps what the first of them returned
Read ==
  \E this \in 1..Len(objs) :
    LET s1 == init(State, this)
    IN /\ objs' = s1.objs
       /\ arrays' = s1.arrays
       /\ initCount' = s1.initCount
       /\ firstRead' = IF firstRead[this].t = "none"
                       THEN [firstRead EXCEPT ![this] = [t |-> "read", r |-> Results(s1, this)]]
                       ELSE firstRead
       /\ UNCHANGED <<calls, born>>
       /\ UNCHANGED handlerVars

Next == append \/ set \/ delete \/ Read

Spec == Init /\ [][Next]_vars

----------------------------------------------------------------------------
\* Helpers of the properties

Instances == 1..Len(objs)

SameKey(n1, n2) == toLowerCase(n1) = toLowerCase(n2)

\* the value argument as the list applyUpdate works on
ListOf(value) == IF value.t = "string" THEN <<value.s>> ELSE value.l

\* an instance whose init() has nothing left to do
Initialized(o) == objs[o].lazyInit.t \in {"null", "undefined"}

IsFork(o) == calls[o].op # "new"

\* what the reads of the result of this.op(name, value) return when it is
\* read right after the call
ReadOfResult(this, op, name, value) ==
  LET s1 == clone(State, this, [name |-> name, value |-> value, op |-> op])
  IN Results(s1, Len(s1.objs))

\* the arguments the contracts of the mutators are checked for
NonEmptyValues == {Str(x), Str(empty), Arr(<<x>>), Arr(<<xy, x>>)}
FilterStrings == {x, xy}

\* the entries of an enumeration that belong to other keys than name's
OtherEntries(entries, name) == SelectSeq(entries, LAMBDA e : ~SameKey(e[1], name))

----------------------------------------------------------------------------
\* C1: receiver immutability: whatever mutators are called and whatever
\* derived collections are read, the reads of every instance return what
\* they returned when the instance was created.
ReceiverImmutable ==
  \A o \in Instances : Results(State, o) = born[o]

\* C2: the first read of the result of c.append(n, vs) returns for n the
\* list c held for n at the time of the call followed by vs, whatever was
\* forked and read in between.
AppendAfterPrior ==
  \A d \in Instances :
    (calls[d].op = "a" /\ Len(ListOf(calls[d].update.value)) > 0
       /\ firstRead[d].t = "read")
    => LET n == calls[d].update.name
           prior == calls[d].before.getAll[n]
       IN firstRead[d].r.getAll[n] =
            Arr((IF prior.t = "array" THEN prior.l ELSE <<>>)
                \o ListOf(calls[d].update.value))

\* C3: c.set(n, vs) read right after the call: getAll(n) is exactly vs,
\* get(n) is the first element of vs, and every other key has the values
\* and the display name it has in c.
SetReplaces ==
  \A this \in Instances : \A n \in Names : \A value \in NonEmptyValues :
    LET c == Results(State, this)
        r == ReadOfResult(this, "s", n, value)
    IN /\ r.getAll[n] = Arr(ListOf(value))
       /\ r.get[n] = Str(ListOf(value)[1])
       /\ r.has[n]
       /\ \A m \in Names : ~SameKey(m, n) =>
            r.has[m] = c.has[m] /\ r.get[m] = c.get[m] /\ r.getAll[m] = c.getAll[m]
       /\ OtherEntries(r.forEach, n) = OtherEntries(c.forEach, n)

\* a set that replaced other values held under another spelling of the name
\* has been read
SetReplacesWitness ==
  \E d \in Instances :
    /\ calls[d].op = "s"
    /\ firstRead[d].t = "read"
    /\ LET n == calls[d].update.name
       IN /\ calls[d].before.has[n]
          /\ \E e \in 1..Len(calls[d].before.forEach) :
               /\ SameKey(calls[d].before.forEach[e][1], n)
               /\ calls[d].before.forEach[e][1] # n
          /\ Len(calls[d].before.getAll[n].l) > 1
          /\ Len(calls[d].before.keys) > 1
          /\ firstRead[d].r.getAll[n] = Arr(ListOf(calls[d].update.value))

\* C4: c.delete(n, v) with a string v, read right after the call: getAll(n)
\* is c's list without the elements equal to v, in order, or null when none
\* is left.
DeleteValueExact ==
  \A this \in Instances : \A n \in Names : \A v \in FilterStrings :
    LET c == Results(State, this)
        r == ReadOfResult(this, "d", n, Str(v))
        left == IF c.getAll[n].t = "array"
                THEN SelectSeq(c.getAll[n].l, LAMBDA e : e # v) ELSE <<>>
    IN r.getAll[n] = IF Len(left) > 0 THEN Arr(left) ELSE Null

\* the reads r report no key n under any spelling
KeyAbsent(r, n) ==
  /\ \A m \in Names : SameKey(m, n) =>
       ~r.has[m] /\ r.get[m] = Null /\ r.getAll[m] = Null
  /\ \A i \in 1..Len(r.keys) : ~SameKey(r.keys[i], n)
  /\ \A i \in 1..Len(r.forEach) : ~SameKey(r.forEach[i][1], n)

\* C5: a result of c.delete(n), for the deletes called and for a delete of
\* any name on any instance, has once initialized no key n under any
\* spelling: has is false, get and getAll are null, keys and the enumeration
\* report no name for it.
DeleteRemovesKey ==
  /\ \A d \in Instances :
       (calls[d].op = "d" /\ calls[d].update.value.t = "undefined" /\ Initialized(d))
       => KeyAbsent(Results(State, d), calls[d].update.name)
  /\ \A this \in Instances : \A n \in Names :
       KeyAbsent(ReadOfResult(this, "d", n, Undefined), n)

\* a delete of a key the receiver held under another spelling has been read
DeleteRemovesKeyWitness ==
  \E d \in Instances :
    /\ calls[d].op = "d" /\ calls[d].update.value.t = "undefined"
    /\ firstRead[d].t = "read"
    /\ calls[d].before.has[calls[d].update.name]
    /\ \A i \in 1..Len(calls[d].before.keys) :
         calls[d].before.keys[i] # calls[d].update.name
    /\ Len(firstRead[d].r.keys) > 0

\* C6: read stability: what a read of an instance returns now is what its
\* first read returned.
ReadStable ==
  \A o \in Instances :
    firstRead[o].t = "read" => Results(State, o) = firstRead[o].r

\* an instance constructed or forked with an initialization pending
CreatedPending(o) ==
  IsFork(o) \/ Constructor(calls[o].headers).lazyInit.t = "Function"

\* C7: the body of init() runs at most once per instance, not while the
\* instance is constructed or forked from, and it has run once the
\* instance was read or a fork pending on it was initialized.
LazyInitOnce ==
  /\ initCount = <<0>>
  /\ [](\A o \in Instances :
          /\ initCount[o] <= 1
          /\ (firstRead[o].t = "read" /\ CreatedPending(o)) => initCount[o] = 1
          /\ (IsFork(o) /\ initCount[o] >= 1 /\ CreatedPending(calls[o].lazyInit))
               => initCount[calls[o].lazyInit] = 1)
  /\ [][Len(objs') > Len(objs) => initCount' = Append(initCount, 0)]_vars

\* a fork was read and its init() initialized the pending parent, which was
\* never read itself; another fork is still pending
LazyInitOnceWitness ==
  \E d \in Instances :
    /\ IsFork(d) /\ firstRead[d].t = "read" /\ initCount[d] = 1
    /\ objs[calls[d].lazyInit].lazyInit.t = "null"
    /\ firstRead[calls[d].lazyInit].t = "none"
    /\ initCount[calls[d].lazyInit] = 1
    /\ \E e \in Instances : IsFork(e) /\ initCount[e] = 0

\* C8: after clone = original.set(X, value) the reads of X on original
\* return what they returned before the call, whether clone is read before
\* original or original before clone.
SetLeavesOriginal ==
  \A this \in Instances : \A n \in Names : \A value \in NonEmptyValues :
    LET before == Results(State, this)
        s1 == clone(State, this, [name |-> n, value |-> value, op |-> "s"])
        cloneFirst == Results(init(s1, Len(s1.objs)), this)
        originalFirst == Results(init(init(s1, this), Len(s1.objs)), this)
    IN /\ cloneFirst.get[n] = before.get[n]
       /\ cloneFirst.getAll[n] = before.getAll[n]
       /\ originalFirst.get[n] = before.get[n]
       /\ originalFirst.getAll[n] = before.getAll[n]

\* the calls case-insensitivity is checked for
CaseCalls ==
  ({"a", "s"} \X {Str(x), Arr(<<xy, x>>)})
    \cup ({"d"} \X {Undefined, Str(x), Arr(<<x>>)})

\* C9: two spellings of a name that are equal after lowercasing give the
\* same has, get and getAll, and a mutator called with the one gives a
\* collection with the same values under every key as called with the other.
CaseInsensitive ==
  \A this \in Instances : \A n1, n2 \in Names :
    (n1 # n2 /\ SameKey(n1, n2)) =>
      LET c == Results(State, this)
      IN /\ c.has[n1] = c.has[n2]
         /\ c.get[n1] = c.get[n2]
         /\ c.getAll[n1] = c.getAll[n2]
         /\ \A call \in CaseCalls :
              LET r1 == ReadOfResult(this, call[1], n1, call[2])
                  r2 == ReadOfResult(this, call[1], n2, call[2])
              IN r1.has = r2.has /\ r1.get = r2.get /\ r1.getAll = r2.getAll

\* a key is held under one spelling, and an append under the other
\* spelling has added to it
CaseInsensitiveWitness ==
  \E d \in Instances :
    /\ calls[d].op = "a" /\ firstRead[d].t = "read"
    /\ LET n == calls[d].update.name
       IN /\ calls[d].before.has[n]
          /\ calls[d].before.keys = <<toLowerCase(n)>>
          /\ n # toLowerCase(n)
          /\ firstRead[d].r.keys = <<toLowerCase(n)>>
          /\ Len(firstRead[d].r.getAll[toLowerCase(n)].l)
               > Len(calls[d].before.getAll[n].l)

\* C10: in every instance, once initialized, the value Map and the
\* display-name Map have the same keys.
KeysInSync ==
  \A o \in Instances :
    LET s1 == init(State, o)
    IN KeySet(s1.objs[o].headers.m) = KeySet(s1.objs[o].normalizedNames)

\* an initialized fork whose filtered delete removed one key of several
KeysInSyncWitness ==
  \E d \in Instances :
    /\ calls[d].op = "d" /\ calls[d].update.value.t = "string"
    /\ Initialized(d)
    /\ calls[d].before.has[calls[d].update.name]
    /\ ~MapHas(objs[d].headers.m, toLowerCase(calls[d].update.name))
    /\ Len(objs[d].headers.m) >= 1
    /\ Len(objs[d].normalizedNames) >= 1

\* the filters a delete is called with
Filters == {Str(x), Str(xy), Arr(<<x>>), Arr(<<xy, x>>)}

\* C11: in every instance, once initialized, every key of the value Map
\* holds at least one value; a record entry with an empty list and a delete
\* that filters out the last value leave the key absent.
NoEmptyList ==
  /\ \A o \in Instances :
       LET s1 == init(State, o)
           h == s1.objs[o].headers.m
       IN \A i \in 1..Len(h) : Len(s1.arrays[h[i][2]]) >= 1
  /\ \A this \in Instances : \A n \in Names : \A v \in Filters :
       LET r == ReadOfResult(this, "d", n, v)
       IN r.has[n] => Len(r.getAll[n].l) >= 1

\* a record with an empty list was initialized without that key, and a
\* delete that filtered out the only value of a key was read
NoEmptyListWitness ==
  /\ calls[1].headers.t = "object"
  /\ \E e \in 1..Len(calls[1].headers.entries) :
       /\ ListOf(calls[1].headers.entries[e][2]) = <<>>
       /\ Initialized(1)
       /\ ~has(State, 1, calls[1].headers.entries[e][1])
  /\ \E d \in Instances :
       /\ calls[d].op = "d" /\ calls[d].update.value.t \in {"string", "array"}
       /\ ~falsy(calls[d].update.value)
       /\ firstRead[d].t = "read"
       /\ calls[d].before.has[calls[d].update.name]
       /\ ~firstRead[d].r.has[calls[d].update.name]

\* C12: c.append(n, []) and c.set(n, []), read right after the call, return
\* for has, get, getAll, keys and the enumeration what c returns; set with
\* an empty list does not clear a key c holds.
EmptyValueNoOp ==
  \A this \in Instances : \A n \in Names : \A op \in {"a", "s"} :
    ReadOfResult(this, op, n, Arr(<<>>)) = Results(State, this)

\* a set with an empty list of a key the receiver holds was read and the
\* key still has the receiver's values
EmptyValueNoOpWitness ==
  \E d \in Instances :
    /\ calls[d].op = "s" /\ calls[d].update.value = Arr(<<>>)
    /\ firstRead[d].t = "read"
    /\ calls[d].before.has[calls[d].update.name]
    /\ firstRead[d].r.getAll[calls[d].update.name]
         = calls[d].before.getAll[calls[d].update.name]

\* C13: c.delete(n) of a name c does not hold, and c.delete(n, v) of a name
\* c does not hold or of a string v that is no element of c's list for n,
\* read right after the call, return what c returns.
DeleteAbsentNoOp ==
  \A this \in Instances : \A n \in Names :
    LET c == Results(State, this)
    IN /\ ~c.has[n] => ReadOfResult(this, "d", n, Undefined) = c
       /\ \A v \in FilterStrings :
            (~c.has[n] \/ arrIndexOf(c.getAll[n].l, v) = -1)
            => ReadOfResult(this, "d", n, Str(v)) = c

\* C14: on every instance, initialized or not, a name that is no key has
\* has false and get and getAll null, and a name that is a key has get
\* equal to the first element of getAll.
AbsentOrFirst ==
  \A o \in Instances : \A n \in Names :
    LET r == Results(State, o)
    IN IF r.has[n]
       THEN /\ r.getAll[n].t = "array"
            /\ Len(r.getAll[n].l) >= 1
            /\ r.get[n] = Str(r.getAll[n].l[1])
       ELSE r.get[n] = Null /\ r.getAll[n] = Null

\* an uninitialized fork with a name that is no key and a key of two
\* different values
AbsentOrFirstWitness ==
  \E o \in Instances : \E n, m \in Names :
    /\ objs[o].lazyInit.t = "HttpHeaders"
    /\ ~Results(State, o).has[n]
    /\ Results(State, o).has[m]
    /\ Len(Results(State, o).getAll[m].l) >= 2
    /\ Results(State, o).getAll[m].l[1] # Results(State, o).getAll[m].l[2]

----------------------------------------------------------------------------
\* Raw header blocks built from lines: the collection of every block of up
\* to MaxLines lines is constructed and read.

\* Number of lines of a raw header block.
MaxLines == 3

\* a line is the text before its first colon and, when it has a colon, the
\* text after it: white space, a text without white space at its ends,
\* white space
LineValues ==
  { [pre |-> <<>>, core |-> x, post |-> <<>>],
    [pre |-> <<" ">>, core |-> xy, post |-> <<" ", "\r">>],
    [pre |-> <<>>, core |-> <<"x", ":", "y">>, post |-> <<"\t">>] }

Lines ==
  [colon : {TRUE}, name : {<<>>, <<"A">>, <<"a">>, <<"B">>}, value : LineValues]
    \cup [colon : {FALSE}, name : {<<>>, <<"B">>}, value : {[pre |-> <<>>, core |-> <<>>, post |-> <<>>]}]

LineText(l) ==
  IF l.colon THEN l.name \o <<":">> \o l.value.pre \o l.value.core \o l.value.post
  ELSE l.name

RECURSIVE Join(_)
Join(lines) ==
  IF lines = <<>> THEN <<>>
  ELSE IF Len(lines) = 1 THEN LineText(lines[1])
  ELSE LineText(lines[1]) \o <<"\n">> \o Join(Tail(lines))

Blocks == UNION {[1..n -> Lines] : n \in 0..MaxLines}

InitParse ==
  /\ \E lines \in Blocks :
       /\ objs = <<Constructor(Str(Join(lines)))>>
       /\ calls = <<[op |-> "new", headers |-> Str(Join(lines)), lines |-> lines]>>
  /\ arrays = <<>>
  /\ initCount = <<0>>
  /\ born = <<Results([objs |-> objs, arrays |-> <<>>, initCount |-> <<0>>], 1)>>
  /\ firstRead = <<NotRead>>
  /\ chain = Null
  /\ injector = [provided |-> Undefined, returned |-> <<>>]
  /\ handled = <<>>
  /\ made = Null

NextParse == Read

SpecParse == InitParse /\ [][NextParse]_vars

\* the lines that give a value to the key k, in line order
Giving(lines, k) ==
  SelectSeq(lines, LAMBDA l : l.colon /\ l.name # <<>> /\ toLowerCase(l.name) = k)

\* the keys in the order of their first line
RECURSIVE FirstKeys(_, _)
FirstKeys(lines, seen) ==
  IF lines = <<>> THEN <<>>
  ELSE LET l == Head(lines)
           k == toLowerCase(l.name)
       IN IF l.colon /\ l.name # <<>> /\ k \notin seen
          THEN <<l.name>> \o FirstKeys(Tail(lines), seen \cup {k})
          ELSE FirstKeys(Tail(lines), seen)

\* C15: the collection of a raw header block holds, for each key, the
\* trimmed texts after the first colon of the lines whose text before the
\* first colon is not empty and lowercases to the key, in line order; lines
\* without a colon or with the colon first give nothing; the display name
\* of a key is the spelling of its first line.
RawBlockParsed ==
  LET lines == calls[1].lines
      r == Results(State, 1)
  IN /\ \A n \in Names :
          LET giving == Giving(lines, toLowerCase(n))
          IN IF giving = <<>>
             THEN ~r.has[n] /\ r.getAll[n] = Null
             ELSE r.getAll[n] = Arr([i \in 1..Len(giving) |-> giving[i].value.core])
     /\ r.keys = FirstKeys(lines, {})
     /\ \A i \in 1..Len(r.forEach) :
          r.forEach[i] = <<r.keys[i], r.getAll[r.keys[i]]>>

\* a block was read whose first line has the colon first, and whose two
\* other lines spell one key differently and pad their values
RawBlockParsedWitness ==
  LET lines == calls[1].lines
  IN /\ Len(lines) = 3
     /\ lines[1].colon /\ lines[1].name = <<>>
     /\ lines[2].colon /\ lines[3].colon
     /\ lines[2].name = <<"A">> /\ lines[3].name = <<"a">>
     /\ lines[2].value.pre # <<>> /\ lines[3].value.post # <<>>
     /\ firstRead[1].t = "read"
     /\ firstRead[1].r.keys = << <<"A">> >>
     /\ Len(firstRead[1].r.getAll[<<"a">>].l) = 2

----------------------------------------------------------------------------
\* The HttpInterceptingHandler of one backend and one injector, and the
\* factory interceptingHandler.

InitChain ==
  /\ NoHandler
  /\ objs = <<Constructor(Undefined)>>
  /\ calls = <<[op |-> "new", headers |-> Undefined]>>
  /\ arrays = <<>>
  /\ initCount = <<0>>
  /\ born = <<Results([objs |-> objs, arrays |-> <<>>, initCount |-> <<0>>], 1)>>
  /\ firstRead = <<NotRead>>

\* handler.handle(req), module.ts:42-49; handled records the handlers the
\* request reached and whether the injector would, at the time of the call,
\* return a list other than the one the chain was built from
HandleCall ==
  /\ Len(handled) < MaxHandles
  /\ LET h == handle([chain |-> chain, injector |-> injector])
     IN /\ chain' = h.chain
        /\ injector' = h.injector
        /\ handled' = Append(handled,
              [reached |-> Reaches(h.chain),
               stale |-> injectorGet(injector, <<>>) # h.injector.returned[1]])
  /\ UNCHANGED made
  /\ UNCHANGED headersVars

\* the application provides another list of interceptors
ProvideInterceptors ==
  /\ \E p \in Provided \ {injector.provided} :
       injector' = [injector EXCEPT !.provided = p]
  /\ UNCHANGED <<chain, handled, made>>
  /\ UNCHANGED headersVars

\* interceptingHandler(backend, interceptors), module.ts:63-70
InterceptingHandlerCall ==
  /\ \E interceptors \in FactoryArgs :
       made' = [t |-> "made", interceptors |-> interceptors,
                handler |-> interceptingHandler(backend, interceptors)]
  /\ UNCHANGED <<chain, injector, handled>>
  /\ UNCHANGED headersVars

NextChain == HandleCall \/ ProvideInterceptors \/ InterceptingHandlerCall

SpecChain == InitChain /\ [][NextChain]_vars

\* i1 around i2 around ... around in around b
RECURSIVE Nest(_, _)
Nest(list, b) ==
  IF list = <<>> THEN b
  ELSE HttpInterceptorHandler(Nest(Tail(list), b), Head(list))

\* C16: the handler made by interceptingHandler(b, list) and the chain of
\* HttpInterceptingHandler.handle nest as i1 around i2 around ... around b,
\* so that a request reaches the interceptors in list order and b last; for
\* an empty list the chain is b, and interceptingHandler(b, null) is b.
InterceptorOrder ==
  /\ chain.t # "null" =>
       /\ chain = Nest(injector.returned[1], backend)
       /\ injector.returned[1] = <<>> => chain = backend
       /\ \A i \in 1..Len(handled) :
            handled[i].reached = injector.returned[1] \o <<backend.id>>
  /\ made.t # "null" =>
       LET list == IF made.interceptors.t = "array" THEN made.interceptors.l ELSE <<>>
       IN /\ made.handler = Nest(list, backend)
          /\ Reaches(made.handler) = list \o <<backend.id>>
          /\ made.interceptors.t = "null" => made.handler = backend

\* a request was handled by a chain of three interceptors, not all the
\* same, and interceptingHandler was called with another such list
InterceptorOrderWitness ==
  /\ chain.t # "null"
  /\ Len(handled) >= 1
  /\ Len(injector.returned[1]) = 3
  /\ injector.returned[1][1] # injector.returned[1][3]
  /\ made.t # "null"
  /\ made.interceptors.t = "array"
  /\ Len(made.interceptors.l) = 3
  /\ made.interceptors.l # injector.returned[1]
  /\ made.interceptors.l[1] # made.interceptors.l[2]

\* C17: the injector is not queried when the handler is constructed; over
\* the handle calls it is queried once, in the first call, for what it
\* provides then, and every later call goes through the chain built in the
\* first call, whatever the injector provides by then.
LoadedOnce ==
  /\ chain = Null /\ injector.returned = <<>>
  /\ [](/\ handled = <<>> => chain = Null /\ injector.returned = <<>>
        /\ handled # <<>> =>
             /\ Len(injector.returned) = 1
             /\ chain = Nest(injector.returned[1], backend)
             /\ \A i \in 1..Len(handled) : handled[i].reached = handled[1].reached)
  /\ [][/\ handled' # handled /\ handled = <<>> =>
             injector'.returned = <<injectorGet(injector, <<>>)>>
        /\ chain.t # "null" =>
             chain' = chain /\ injector'.returned = injector.returned]_vars

\* a second call was made when the injector provided a list other than the
\* one of the first call
LoadedOnceWitness ==
  /\ Len(handled) >= 2
  /\ ~handled[1].stale
  /\ handled[2].stale
  /\ handled[2].reached = injector.returned[1] \o <<backend.id>>

----------------------------------------------------------------------------
\* Chains of mutator calls, and their eager application to a copy

\* Number of calls of a chain.
MaxChain == 2

ChainUpdates ==
  { [op |-> "a", name |-> <<"a">>, value |-> Arr(<<xy, x>>)],
    [op |-> "a", name |-> <<"B">>, value |-> Str(x)],
    [op |-> "s", name |-> <<"A">>, value |-> Str(xy)],
    [op |-> "d", name |-> <<"A">>, value |-> Undefined],
    [op |-> "d", name |-> <<"a">>, value |-> Str(x)],
    [op |-> "d", name |-> <<"a">>, value |-> Str(xy)] }

Chains == UNION {[1..n -> ChainUpdates] : n \in 1..MaxChain}

\* this.op1(..).op2(..)...: each call is made on the result of the one
\* before, and nothing is read in between
RECURSIVE chained(_, _, _)
chained(st, this, updates) ==
  IF updates = <<>> THEN [st |-> st, last |-> this]
  ELSE LET s1 == clone(st, this, Head(updates))
       IN chained(s1, Len(s1.objs), Tail(updates))

ReadOfChain(this, updates) ==
  LET c == chained(State, this, updates)
  IN Results(c.st, c.last)

\* the content of an instance as a value: its entries, display name and
\* list of values, in the order of enumeration
Content(o) ==
  LET each == Results(State, o).forEach
  IN [i \in 1..Len(each) |-> [name |-> each[i][1], values |-> each[i][2].l]]

Holds(c, name) == \E i \in 1..Len(c) : SameKey(c[i].name, name)

Without(c, name) == SelectSeq(c, LAMBDA e : ~SameKey(e.name, name))

\* one call applied at once to a content: append adds the values to the
\* list of the key; set replaces the list; both leave the content alone for
\* an empty list of values and name a new key as the call spells it; delete
\* removes the key when no value (or the empty string) is given, and
\* otherwise the values given, and the key when none is left
EagerApply(c, u) ==
  IF u.op \in {"a", "s"}
  THEN LET values == ListOf(u.value)
       IN IF values = <<>> THEN c
          ELSE IF Holds(c, u.name)
          THEN [i \in 1..Len(c) |->
                  IF SameKey(c[i].name, u.name)
                  THEN [c[i] EXCEPT !.values = IF u.op = "a" THEN @ \o values ELSE values]
                  ELSE c[i]]
          ELSE Append(c, [name |-> u.name, values |-> values])
  ELSE IF u.value.t = "undefined" \/ u.value = Str(empty)
  THEN Without(c, u.name)
  ELSE LET given == {ListOf(u.value)[j] : j \in 1..Len(ListOf(u.value))}
           rest == [i \in 1..Len(c) |->
                      IF SameKey(c[i].name, u.name)
                      THEN [c[i] EXCEPT !.values = SelectSeq(@, LAMBDA v : v \notin given)]
                      ELSE c[i]]
       IN SelectSeq(rest, LAMBDA e : e.values # <<>>)

RECURSIVE EagerAll(_, _)
EagerAll(c, updates) ==
  IF updates = <<>> THEN c ELSE EagerAll(EagerApply(c, Head(updates)), Tail(updates))

\* what the reads return for a content
ReadsOf(c) ==
  LET entry(n) == c[CHOOSE i \in 1..Len(c) : SameKey(c[i].name, n)]
  IN [has |-> [n \in Names |-> Holds(c, n)],
      get |-> [n \in Names |-> IF Holds(c, n) THEN Str(entry(n).values[1]) ELSE Null],
      getAll |-> [n \in Names |-> IF Holds(c, n) THEN Arr(entry(n).values) ELSE Null],
      keys |-> [i \in 1..Len(c) |-> c[i].name],
      forEach |-> [i \in 1..Len(c) |-> <<c[i].name, Arr(c[i].values)>>]]

\* C18: for every instance and every chain of append, set and delete calls
\* made one on the result of the other with no read in between, the reads
\* of the last result equal the reads of the content obtained by applying
\* the calls in order, each at once, to a copy of the instance's content.
ChainRefinesEager ==
  \A this \in Instances : \A updates \in Chains :
    ReadOfChain(this, updates) = ReadsOf(EagerAll(Content(this), updates))

----------------------------------------------------------------------------
\* the names of the entries of a record that give a key its first value
RECURSIVE RecordNames(_, _)
RecordNames(entries, seen) ==
  IF entries = <<>> THEN <<>>
  ELSE LET name == Head(entries)[1]
           k == toLowerCase(name)
       IN IF ListOf(Head(entries)[2]) # <<>> /\ k \notin seen
          THEN <<name>> \o RecordNames(Tail(entries), seen \cup {k})
          ELSE RecordNames(Tail(entries), seen)

\* keys() and the enumeration report the same names, one for each key
OneNamePerKey(r) ==
  /\ \A i, j \in 1..Len(r.keys) : SameKey(r.keys[i], r.keys[j]) => i = j
  /\ Len(r.forEach) = Len(r.keys)
  /\ \A i \in 1..Len(r.keys) : r.forEach[i][1] = r.keys[i]
  /\ \A n \in Names : r.has[n] <=> \E i \in 1..Len(r.keys) : SameKey(r.keys[i], n)

\* C19: keys() and the enumeration report one name for each key held: for a
\* record, the spelling of the first entry that gives the key values; after
\* an append or set with values, the name the receiver reports if it holds
\* the key, whatever the spelling of the call, and the spelling of the call
\* otherwise; after a delete of the key followed by an append or set, the
\* spelling of that call.
DisplayNameFirstSeen ==
  /\ \A o \in Instances :
       LET r == Results(State, o)
       IN /\ OneNamePerKey(r)
          /\ (calls[o].op = "new" /\ calls[o].headers.t = "object")
               => r.keys = RecordNames(calls[o].headers.entries, {})
  /\ \A this \in Instances : \A n \in Names : \A op \in {"a", "s"} :
       LET c == Results(State, this)
           rest == SelectSeq(c.keys, LAMBDA m : ~SameKey(m, n))
       IN /\ \A v \in {Str(x), Arr(<<xy, x>>)} :
               LET r == ReadOfResult(this, op, n, v)
               IN /\ OneNamePerKey(r)
                  /\ r.keys = IF c.has[n] THEN c.keys ELSE Append(c.keys, n)
          /\ \A n0 \in Names : (SameKey(n0, n) /\ (n0 # n \/ ~c.has[n])) =>
               LET r == ReadOfChain(this, <<[op |-> "d", name |-> n0, value |-> Undefined],
                                            [op |-> op, name |-> n, value |-> Str(x)]>>)
               IN /\ OneNamePerKey(r)
                  /\ r.keys = Append(rest, n)

\* a record spells a key in two ways and reports the first; the key was
\* deleted from it, appended to the result under another spelling, and the
\* last result was read and reports that spelling
DisplayNameFirstSeenWitness ==
  \E o \in Instances :
    /\ calls[o].op = "a"
    /\ calls[o].update.name = <<"a">>
    /\ firstRead[o].t = "read"
    /\ firstRead[o].r.keys = << <<"B">>, <<"a">> >>
    /\ LET d == calls[o].this
       IN /\ calls[d].op = "d"
          /\ calls[d].update.value = Undefined
          /\ SameKey(calls[d].update.name, <<"a">>)
          /\ calls[calls[d].this].op = "new"
          /\ calls[calls[d].this].headers.t = "object"
          /\ Len(calls[calls[d].this].headers.entries) = 3
          /\ born[calls[d].this].keys = << <<"B">>, <<"A">> >>

----------------------------------------------------------------------------
\* C20: delete(n, "") does what delete(n) does: read right after the call,
\* the result of either has no key n and no display name for it, whatever
\* values the receiver holds for n, and the two results read the same.
DeleteEmptyFilter ==
  \A this \in Instances : \A n \in Names :
    LET r == ReadOfResult(this, "d", n, Str(empty))
    IN /\ r = ReadOfResult(this, "d", n, Undefined)
       /\ KeyAbsent(r, n)

\* delete(n, "") was called on an instance that held n with a value other
\* than the empty string, and the result was read
DeleteEmptyFilterWitness ==
  \E o \in Instances :
    /\ calls[o].op = "d"
    /\ calls[o].update.value = Str(empty)
    /\ calls[o].before.has[calls[o].update.name]
    /\ \E i \in 1..Len(calls[o].before.getAll[calls[o].update.name].l) :
         calls[o].before.getAll[calls[o].update.name].l[i] # empty
    /\ firstRead[o].t = "read"
    /\ KeyAbsent(firstRead[o].r, calls[o].update.name)

====
